---- MODULE Spec2Model ----
(***************************************************************************)
(* A model of notebooks/mlrun_mpijob_pipe.ipynb: the notebook's statements *)
(* in the order of its cells, the workflow that hvd_pipeline declares, and *)
(* one run of that workflow scheduled by the rule the notebook documents   *)
(* ("The pipeline order is defined by the following: <fn>.after(<previous  *)
(* fn>) / a parameter or input taken from a previous function").           *)
(***************************************************************************)
EXTENDS Integers, Sequences, FiniteSets, TLC

VARIABLES
    done,                \* the statements of the notebook executed so far, in order
    utilsfn,             \* the function built by code_to_function, or None
    trainer_fn,          \* the descriptor returned by import_function, or None
    inference_function,  \* the model server function, or None
    hvd_pipeline,        \* TRUE once the def hvd_pipeline cell has run
    compiled,            \* the workflow written to hvd_pipeline.yaml, or None
    run,                 \* the submitted run [run_id, params, steps], or None
    db,                  \* TRUE once get_run_db().connect() has returned
    listed,              \* what list_runs showed, or None
    status,              \* the state of each step of the run
    received,            \* the values each started step got for its step-output inputs
    logged,              \* the artifact names each finished step logged
    artifacts,           \* the outputs each step exposed to the pipeline
    events,              \* the steps of the run in the order they were started
    served               \* the models the deployed server serves

vars == <<done, utilsfn, trainer_fn, inference_function, hvd_pipeline, compiled,
          run, db, listed, status, received, logged, artifacts, events, served>>

\* The value of a name that is not bound yet.
None == [ none |-> TRUE ]

\* ------------------------------------------------------------------ bounds

\* The distinct contents a logged artifact may have.
MaxArt == 2

\* The distinct run ids the pipeline service may hand out.
MaxRunId == 2

ArtifactValues == 1..MaxArt

RunIds == 1..MaxRunId

\* ------------------------------------------------- the notebook's statements

\* The statements of the code cells, top to bottom.
CellOrderDeployLast ==
    << "code_to_function", "utilsfn_apply", "utilsfn_export",
       "import_function", "new_model_server", "with_http", "inference_apply",
       "def_hvd_pipeline", "compile", "create_run", "connect", "list_runs",
       "utilsfn_deploy" >>

CellOrder ==
    << "code_to_function", "utilsfn_apply", "utilsfn_deploy", "utilsfn_export",
       "import_function", "new_model_server", "with_http", "inference_apply",
       "def_hvd_pipeline", "compile", "create_run", "connect", "list_runs" >>

\* The statement the kernel runs next: cells run top to bottom, one at a time.
IsNext(stmt) ==
    /\ Len(done) < Len(CellOrder)
    /\ CellOrder[Len(done) + 1] = stmt

Executed(stmt) == \E i \in 1..Len(done) : done[i] = stmt

\* ------------------------------------------------------- the function DB

\* The descriptor stored under db://horovod-trainer, as the notebook shows it.
HorovodTrainer ==
    [ kind |-> "mpijob",
      metadata |-> [ name |-> "horovod-trainer", tag |-> "latest",
                     project |-> "default" ],
      spec |-> [ command |-> "/User/demo-image-classification/src/horovod-training.py",
                 args |-> << >>,
                 image |-> "mlrun/mpijob:latest",
                 volumes |-> << [ name |-> "v3io", driver |-> "v3io/fuse",
                                  container |-> "users", subPath |-> "/admin" ] >>,
                 volume_mounts |-> << [ mountPath |-> "/User", name |-> "v3io" ] >>,
                 env |-> << "V3IO_API", "V3IO_USERNAME", "V3IO_ACCESS_KEY" >>,
                 description |-> "",
                 replicas |-> 4,
                 image_pull_policy |-> "Always",
                 build |-> [ commands |-> << >> ] ] ]

FunctionDB == [ url \in { "db://horovod-trainer" } |-> HorovodTrainer ]

import_function(url) == FunctionDB[url]

\* ------------------------------------------------- the pipeline declaration

StepNames == { "download", "label", "train", "deploy" }

\* The defaults of hvd_pipeline's parameters.
Defaults ==
    [ image_archive   |-> "http://iguazio-sample-data.s3.amazonaws.com/catsndogs.zip",
      images_path     |-> "/User/mlrun/examples/images",
      source_dir      |-> "/User/mlrun/examples/images/cats_n_dogs",
      checkpoints_dir |-> "/User/mlrun/examples/checkpoints",
      model_path      |-> "/User/mlrun/examples/models/cats_n_dogs.h5",
      model_name      |-> "cat_vs_dog_v1" ]

\* The arguments the notebook submits the run with: arguments = {}.
Arguments == [ k \in {} |-> "" ]

RunParamsIgnoringDefaults(arguments) ==
    [ k \in DOMAIN Defaults |->
        IF k \in DOMAIN arguments THEN arguments[k] ELSE "" ]

\* A run's parameters: the arguments given, the defaults for the rest.
RunParams(arguments) ==
    [ k \in DOMAIN Defaults |->
        IF k \in DOMAIN arguments THEN arguments[k] ELSE Defaults[k] ]

\* One input of a step taken from an output of another step.
Ref(input, step, output) == [ input |-> input, step |-> step, output |-> output ]

\* open_archive = utilsfn.as_step(name='download', ..., outputs=['content'])
OpenArchiveStep(u, p) ==
    [ name     |-> "download",
      fn       |-> u,
      handler  |-> "open_archive",
      params   |-> [ target_dir |-> p.images_path, archive_url |-> p.image_archive ],
      refs     |-> {},
      outputs  |-> { "content" },
      after    |-> {},
      cred     |-> FALSE ]

LabelStepNoAfter(u, p) ==
    [ name     |-> "label",
      fn       |-> u,
      handler  |-> "categories_map_builder",
      params   |-> [ source_dir |-> p.source_dir ],
      refs     |-> {},
      outputs  |-> { "categories_map", "file_categories" },
      after    |-> {},
      cred     |-> FALSE ]

\* label = utilsfn.as_step(name='label', ...).after(open_archive)
LabelStep(u, p) ==
    [ name     |-> "label",
      fn       |-> u,
      handler  |-> "categories_map_builder",
      params   |-> [ source_dir |-> p.source_dir ],
      refs     |-> {},
      outputs  |-> { "categories_map", "file_categories" },
      after    |-> { "download" },
      cred     |-> FALSE ]

TrainStepNoOutputs(t, p) ==
    [ name     |-> "train",
      fn       |-> t,
      handler  |-> "",
      params   |-> [ checkpoints_dir |-> p.checkpoints_dir,
                     model_path |-> p.model_path, data_path |-> p.source_dir ],
      refs     |-> { Ref("categories_map", "label", "categories_map"),
                     Ref("file_categories", "label", "file_categories") },
      outputs  |-> {},
      after    |-> {},
      cred     |-> TRUE ]

TrainStepAfterDownload(t, p) ==
    [ name     |-> "train",
      fn       |-> t,
      handler  |-> "",
      params   |-> [ checkpoints_dir |-> p.checkpoints_dir,
                     model_path |-> p.model_path, data_path |-> p.source_dir ],
      refs     |-> {},
      outputs  |-> { "model" },
      after    |-> { "download" },
      cred     |-> TRUE ]

\* train = trainer_fn.as_step(name='train', ..., outputs=['model']).apply(v3io_cred())
TrainStep(t, p) ==
    [ name     |-> "train",
      fn       |-> t,
      handler  |-> "",
      params   |-> [ checkpoints_dir |-> p.checkpoints_dir,
                     model_path |-> p.model_path, data_path |-> p.source_dir ],
      refs     |-> { Ref("categories_map", "label", "categories_map"),
                     Ref("file_categories", "label", "file_categories") },
      outputs  |-> { "model" },
      after    |-> {},
      cred     |-> TRUE ]

DeployStepModelPath(inf, p) ==
    [ name     |-> "deploy",
      fn       |-> inf,
      handler  |-> "",
      params   |-> [ project |-> "nuclio-serving", model |-> p.model_path ],
      refs     |-> {},
      outputs  |-> {},
      after    |-> {},
      cred     |-> FALSE ]

\* deploy = inference_function.deploy_step(project='nuclio-serving',
\*              models={model_name: train.outputs['model']})
DeployStep(inf, p) ==
    [ name     |-> "deploy",
      fn       |-> inf,
      handler  |-> "",
      params   |-> [ project |-> "nuclio-serving" ],
      refs     |-> { Ref(p.model_name, "train", "model") },
      outputs  |-> {},
      after    |-> {},
      cred     |-> FALSE ]

\* The body of hvd_pipeline, evaluated with the notebook's globals as they are
\* when the pipeline function is called (by the compiler and by the client).
Workflow(u, t, inf, p) ==
    [ s \in StepNames |->
        CASE s = "download" -> OpenArchiveStep(u, p)
          [] s = "label"    -> LabelStep(u, p)
          [] s = "train"    -> TrainStep(t, p)
          [] s = "deploy"   -> DeployStep(inf, p) ]

\* --------------------------------------------------------- initial state

Init ==
    /\ done = << >>
    /\ utilsfn = None
    /\ trainer_fn = None
    /\ inference_function = None
    /\ hvd_pipeline = FALSE
    /\ compiled = None
    /\ run = None
    /\ db = FALSE
    /\ listed = None
    /\ status = [ s \in StepNames |-> "Pending" ]
    /\ received = [ s \in StepNames |-> << >> ]
    /\ logged = [ s \in StepNames |-> {} ]
    /\ artifacts = [ s \in StepNames |-> << >> ]
    /\ events = << >>
    /\ served = {}

runVars == <<status, received, logged, artifacts, events, served>>

\* ------------------------------------------------- the notebook's actions

\* utilsfn = code_to_function(name='file_utils', filename='../src/utils.py',
\*                            image='mlrun/mlrun:latest', kind='job')
CodeToFunction ==
    /\ IsNext("code_to_function")
    /\ utilsfn' = [ name |-> "file_utils", kind |-> "job",
                    image |-> "mlrun/mlrun:latest", mounted |-> FALSE,
                    state |-> "created" ]
    /\ done' = Append(done, "code_to_function")
    /\ UNCHANGED <<trainer_fn, inference_function, hvd_pipeline, compiled, run,
                   db, listed, runVars>>

\* utilsfn.apply(mount_v3io())
UtilsApply ==
    /\ IsNext("utilsfn_apply")
    /\ utilsfn # None
    /\ utilsfn' = [ utilsfn EXCEPT !.mounted = TRUE ]
    /\ done' = Append(done, "utilsfn_apply")
    /\ UNCHANGED <<trainer_fn, inference_function, hvd_pipeline, compiled, run,
                   db, listed, runVars>>

\* utilsfn.deploy(): the remote build of the function image; it returned True.
UtilsDeploy ==
    /\ IsNext("utilsfn_deploy")
    /\ utilsfn # None
    /\ utilsfn' = [ utilsfn EXCEPT !.image = ".mlrun/func-default-file-utils-latest",
                                   !.state = "ready" ]
    /\ done' = Append(done, "utilsfn_deploy")
    /\ UNCHANGED <<trainer_fn, inference_function, hvd_pipeline, compiled, run,
                   db, listed, runVars>>

\* utilsfn.export('../yaml/utils.yaml'): writes a file, changes no name.
UtilsExport ==
    /\ IsNext("utilsfn_export")
    /\ utilsfn # None
    /\ done' = Append(done, "utilsfn_export")
    /\ UNCHANGED <<utilsfn, trainer_fn, inference_function, hvd_pipeline, compiled,
                   run, db, listed, runVars>>

\* trainer_fn = import_function('db://horovod-trainer'); the deploy() that
\* follows is commented out and to_dict() only displays the descriptor.
ImportFunction ==
    /\ IsNext("import_function")
    /\ trainer_fn' = import_function("db://horovod-trainer")
    /\ done' = Append(done, "import_function")
    /\ UNCHANGED <<utilsfn, inference_function, hvd_pipeline, compiled, run,
                   db, listed, runVars>>

\* inference_function = new_model_server('tf-images-server', filename=...,
\*                                       model_class='TFModel')
NewModelServer ==
    /\ IsNext("new_model_server")
    /\ inference_function' = [ name |-> "tf-images-server", model_class |-> "TFModel",
                               models |-> {}, workers |-> 0, mounted |-> FALSE ]
    /\ done' = Append(done, "new_model_server")
    /\ UNCHANGED <<utilsfn, trainer_fn, hvd_pipeline, compiled, run, db, listed,
                   runVars>>

\* inference_function.with_http(workers=2)
WithHttp ==
    /\ IsNext("with_http")
    /\ inference_function # None
    /\ inference_function' = [ inference_function EXCEPT !.workers = 2 ]
    /\ done' = Append(done, "with_http")
    /\ UNCHANGED <<utilsfn, trainer_fn, hvd_pipeline, compiled, run, db, listed,
                   runVars>>

\* inference_function.apply(mount_v3io())
InferenceApply ==
    /\ IsNext("inference_apply")
    /\ inference_function # None
    /\ inference_function' = [ inference_function EXCEPT !.mounted = TRUE ]
    /\ done' = Append(done, "inference_apply")
    /\ UNCHANGED <<utilsfn, trainer_fn, hvd_pipeline, compiled, run, db, listed,
                   runVars>>

\* @dsl.pipeline(...) def hvd_pipeline(...): binds the name; the body runs
\* when the compiler or the client calls the function.
DefPipeline ==
    /\ IsNext("def_hvd_pipeline")
    /\ hvd_pipeline' = TRUE
    /\ done' = Append(done, "def_hvd_pipeline")
    /\ UNCHANGED <<utilsfn, trainer_fn, inference_function, compiled, run, db,
                   listed, runVars>>

\* The names the body of hvd_pipeline reads are bound.
PipelineCallable ==
    /\ hvd_pipeline
    /\ utilsfn # None
    /\ trainer_fn # None
    /\ inference_function # None

\* kfp.compiler.Compiler().compile(hvd_pipeline, 'hvd_pipeline.yaml')
Compile ==
    /\ IsNext("compile")
    /\ PipelineCallable
    /\ compiled' = Workflow(utilsfn, trainer_fn, inference_function, Defaults)
    /\ done' = Append(done, "compile")
    /\ UNCHANGED <<utilsfn, trainer_fn, inference_function, hvd_pipeline, run, db,
                   listed, runVars>>

\* client = kfp.Client(...); arguments = {};
\* run_result = client.create_run_from_pipeline_func(hvd_pipeline, arguments, ...)
CreateRun ==
    /\ IsNext("create_run")
    /\ PipelineCallable
    /\ \E id \in RunIds :
         run' = [ run_id |-> id,
                  params |-> RunParams(Arguments),
                  steps  |-> Workflow(utilsfn, trainer_fn, inference_function,
                                      RunParams(Arguments)) ]
    /\ done' = Append(done, "create_run")
    /\ UNCHANGED <<utilsfn, trainer_fn, inference_function, hvd_pipeline, compiled,
                   db, listed, runVars>>

\* db = get_run_db().connect()
Connect ==
    /\ IsNext("connect")
    /\ db' = TRUE
    /\ done' = Append(done, "connect")
    /\ UNCHANGED <<utilsfn, trainer_fn, inference_function, hvd_pipeline, compiled,
                   run, listed, runVars>>

\* db.list_runs('', labels=f'workflow={run_result.run_id}').show()
ListRuns ==
    /\ IsNext("list_runs")
    /\ db
    /\ run # None
    /\ listed' = [ workflow |-> run.run_id,
                   runs |-> [ s \in { x \in StepNames : status[x] # "Pending" }
                                |-> status[s] ] ]
    /\ done' = Append(done, "list_runs")
    /\ UNCHANGED <<utilsfn, trainer_fn, inference_function, hvd_pipeline, compiled,
                   run, db, runVars>>

nbVars == <<done, utilsfn, trainer_fn, inference_function, hvd_pipeline, compiled,
            run, db, listed>>

\* --------------------------------------------------- the run of the workflow

DependenciesAfterOnly(step) == step.after

\* The steps a step waits for: those named in .after() and those it takes
\* an input from.
Dependencies(step) == step.after \cup { r.step : r \in step.refs }

\* A step of the submitted run whose every dependency has completed.
Runnable(s) ==
    /\ run # None
    /\ status[s] = "Pending"
    /\ \A d \in Dependencies(run.steps[s]) : status[d] = "Succeeded"

\* The value of each step-output input: what the producer exposed under that
\* output name (0 when it exposed nothing under it).
Resolve(step) ==
    [ i \in { r.input : r \in step.refs } |->
        LET r == CHOOSE x \in step.refs : x.input = i
        IN  IF r.output \in DOMAIN artifacts[r.step]
            THEN artifacts[r.step][r.output]
            ELSE 0 ]

StartStep(s) ==
    /\ Runnable(s)
    /\ status' = [ status EXCEPT ![s] = "Running" ]
    /\ received' = [ received EXCEPT ![s] = Resolve(run.steps[s]) ]
    /\ events' = Append(events, s)
    /\ UNCHANGED <<nbVars, logged, artifacts, served>>

\* The artifact names a step's handler may log: its declared outputs and one
\* it does not declare.
Loggable(step) == step.outputs \cup { "undeclared" }

\* What a finished step exposes to the pipeline: the logged artifacts whose
\* names are written in its outputs parameter.
Exposed(step, names) == names \cap step.outputs

\* A job step (download, label, train) ends: it has logged `names`; it has
\* completed when every declared output was logged, and has failed otherwise.
FinishStep(s) ==
    /\ s # "deploy"
    /\ run # None
    /\ status[s] = "Running"
    /\ \E names \in SUBSET Loggable(run.steps[s]) :
       \E vals \in [ Exposed(run.steps[s], names) -> ArtifactValues ] :
         /\ logged' = [ logged EXCEPT ![s] = names ]
         /\ IF run.steps[s].outputs \subseteq names
            THEN /\ status' = [ status EXCEPT ![s] = "Succeeded" ]
                 /\ artifacts' = [ artifacts EXCEPT ![s] = vals ]
            ELSE /\ status' = [ status EXCEPT ![s] = "Failed" ]
                 /\ UNCHANGED artifacts
    /\ UNCHANGED <<nbVars, received, events, served>>

\* A running step fails.
FailStep(s) ==
    /\ run # None
    /\ status[s] = "Running"
    /\ status' = [ status EXCEPT ![s] = "Failed" ]
    /\ UNCHANGED <<nbVars, received, logged, artifacts, events, served>>

\* The models the server deploys: those of the function and those given
\* under models={<model_name>: <model_file_path>}.
ServeModels(step) ==
    step.fn.models \cup
    { [ name |-> r.input, file |-> received["deploy"][r.input] ] : r \in step.refs }

\* The deploy step ends: the model server is up.
FinishDeploy ==
    /\ run # None
    /\ status["deploy"] = "Running"
    /\ status' = [ status EXCEPT !["deploy"] = "Succeeded" ]
    /\ served' = ServeModels(run.steps["deploy"])
    /\ UNCHANGED <<nbVars, received, logged, artifacts, events>>

\* The server provides a /<model_name>/predict endpoint for each model.
Endpoints == { << m.name, "predict" >> : m \in served }

Next ==
    \/ CodeToFunction
    \/ UtilsApply
    \/ UtilsDeploy
    \/ UtilsExport
    \/ ImportFunction
    \/ NewModelServer
    \/ WithHttp
    \/ InferenceApply
    \/ DefPipeline
    \/ Compile
    \/ CreateRun
    \/ Connect
    \/ ListRuns
    \/ \E s \in StepNames : StartStep(s)
    \/ \E s \in StepNames : FinishStep(s)
    \/ \E s \in StepNames : FailStep(s)
    \/ FinishDeploy

Spec == Init /\ [][Next]_vars

\* ------------------------------------------------------------ properties

\* The chain the pipeline is meant to run in.
Chain == << "download", "label", "train", "deploy" >>

\* C1: hvd_pipeline declares exactly four steps (download, label, train,
\* deploy), and in a submitted run no step has started unless the step
\* before it in the chain download -> label -> train -> deploy has
\* completed; the steps are started in that order.
C1_FourStepsInChainOrder ==
    run # None =>
        /\ DOMAIN run.steps = { "download", "label", "train", "deploy" }
        /\ \A s \in DOMAIN run.steps : run.steps[s].name = s
        /\ \A i \in 2..Len(Chain) :
             status[Chain[i]] # "Pending" => status[Chain[i - 1]] = "Succeeded"
        /\ Len(events) <= Len(Chain)
        /\ \A i \in 1..Len(events) : events[i] = Chain[i]

\* C1's case: the whole chain has run, deploy last.
C1_Witness ==
    /\ status["deploy"] = "Succeeded"
    /\ events = Chain

\* The statements C2 orders, first to last.
C2_Order ==
    << "code_to_function", "utilsfn_deploy", "import_function", "new_model_server",
       "def_hvd_pipeline", "compile", "create_run", "list_runs" >>

\* C2: the notebook builds the utils function and its image, fetches the
\* trainer function, defines the model server, declares the pipeline,
\* compiles it, submits it and then queries the run database, in that order:
\* a run exists only when the utils image is built and the trainer
\* descriptor is fetched, and the run database was queried only for the run
\* id a submission returned.
C2_NotebookOrder ==
    /\ \A i \in 1..Len(C2_Order) : \A j \in 1..Len(C2_Order) :
         (i < j /\ Executed(C2_Order[j])) => Executed(C2_Order[i])
    /\ run # None =>
         /\ utilsfn # None
         /\ utilsfn.state = "ready"
         /\ run.steps["download"].fn.state = "ready"
         /\ trainer_fn # None
    /\ listed # None =>
         /\ run # None
         /\ listed.workflow = run.run_id

\* C2's case: the last cell has queried the run database for the run.
C2_Witness ==
    /\ listed # None
    /\ Executed("list_runs")

\* C3: label is declared with .after(open_archive) and takes no input from
\* an output of download; still label has not started unless download has
\* completed.
C3_AfterOrdersLabel ==
    run # None =>
        /\ run.steps["label"].refs = {}
        /\ status["label"] # "Pending" => status["download"] = "Succeeded"

\* C3's case: label is running, after download completed.
C3_Witness ==
    /\ status["label"] = "Running"
    /\ status["download"] = "Succeeded"

\* C4: train takes categories_map and file_categories from label's outputs
\* and deploy takes the model file from train's 'model' output, so train has
\* not started unless label has completed, deploy has not started unless
\* train has completed, and each consumer received the value its producer
\* wrote under that output name.
C4_InputsOrderAndCarryValues ==
    run # None =>
        /\ status["train"] # "Pending" =>
             /\ status["label"] = "Succeeded"
             /\ received["train"]["categories_map"] = artifacts["label"]["categories_map"]
             /\ received["train"]["file_categories"] = artifacts["label"]["file_categories"]
        /\ status["deploy"] # "Pending" =>
             /\ status["train"] = "Succeeded"
             /\ received["deploy"][run.params.model_name] = artifacts["train"]["model"]

\* C4's case: deploy has started with the model, and label's two outputs
\* differ, so that a mixed-up input would show.
C4_Witness ==
    /\ status["deploy"] = "Running"
    /\ received["train"]["categories_map"] # received["train"]["file_categories"]

\* The references of a workflow all name an output their producer declares.
RefsDeclared(wf) ==
    \A s \in DOMAIN wf : \A r \in wf[s].refs :
        /\ r.step \in DOMAIN wf
        /\ r.output \in wf[r.step].outputs

\* C5: every output a step of hvd_pipeline reads from another step
\* (label's categories_map and file_categories, train's model) is listed in
\* the producer's declared outputs, in the compiled workflow and in the
\* submitted one, and a step exposes an artifact to the pipeline only when
\* it logged it and its name is in the step's outputs.
C5_ReadOutputsAreDeclared ==
    /\ compiled # None => RefsDeclared(compiled)
    /\ run # None =>
         /\ RefsDeclared(run.steps)
         /\ { << r.step, r.output >> :
                r \in UNION { run.steps[s].refs : s \in DOMAIN run.steps } }
              = { << "label", "categories_map" >>, << "label", "file_categories" >>,
                  << "train", "model" >> }
         /\ \A s \in StepNames :
              DOMAIN artifacts[s] \subseteq (logged[s] \cap run.steps[s].outputs)

\* C5's case: train has read label's outputs, and label had also logged an
\* artifact it does not declare.
C5_Witness ==
    /\ status["train"] = "Running"
    /\ "undeclared" \in logged["label"]

\* The GPU configuration of a function descriptor is its spec.resources.
C6_SavedParameters == { "replicas", "resources", "volumes", "volume_mounts", "command" }

\* C6: the descriptor import_function returns for db://horovod-trainer holds
\* every deployment parameter that was saved (Replicas, GPU Configuration,
\* Mounts, Runtime kind, the code source command) with the stored value, and
\* the train step runs with exactly that descriptor, v3io credentials
\* applied to the step.
C6_TrainerDescriptorAsSaved ==
    trainer_fn # None =>
        /\ trainer_fn = FunctionDB["db://horovod-trainer"]
        /\ trainer_fn.kind = "mpijob"
        /\ C6_SavedParameters \subseteq DOMAIN trainer_fn.spec
        /\ run # None =>
             /\ run.steps["train"].fn = trainer_fn
             /\ run.steps["train"].cred

\* C7: once the deploy step has completed, the server serves exactly one
\* model, keyed by the pipeline parameter model_name ('cat_vs_dog_v1' for a
\* run submitted with empty arguments), whose file is the 'model' output of
\* train, and /cat_vs_dog_v1/predict is its one prediction endpoint.
C7_ServesTheTrainedModel ==
    status["deploy"] = "Succeeded" =>
        /\ run.params.model_name = "cat_vs_dog_v1"
        /\ served = { [ name |-> run.params.model_name,
                        file |-> artifacts["train"]["model"] ] }
        /\ Endpoints = { << "cat_vs_dog_v1", "predict" >> }

\* C7's case: the deploy step has completed and the server serves a model.
C7_Witness ==
    /\ status["deploy"] = "Succeeded"
    /\ served # {}

====
